---- MODULE Spec2Model ----
(***************************************************************************)
(* Model of the pharmacist assistant: the prescription parser              *)
(* (src/src/prescription_utils.py), the medicines/orders tables and the    *)
(* Streamlit pages that drive them (src/app.py).                           *)
(*                                                                         *)
(* A Python str is a sequence of one-character strings.  A Python value    *)
(* held by a prescription field or passed as a quantity is a record        *)
(* [t, neg, s]: t = "str" with the characters in s, or t = "int" with the  *)
(* sign in neg and the decimal digits (no leading zero) in s, so that      *)
(* Python's unbounded integers are not cut to the checker's word size.     *)
(***************************************************************************)
EXTENDS Integers, Sequences, FiniteSets, TLC

VARIABLES text, parsed, pc, page, uploaded, scan, medicines, orders, today, last

vars == <<text, parsed, pc, page, uploaded, scan, medicines, orders, today, last>>

(***************************************************************************)
(* Strings                                                                 *)
(***************************************************************************)
Upper == <<"A","B","C","D","E","F","G","H","I","J","K","L","M",
           "N","O","P","Q","R","S","T","U","V","W","X","Y","Z">>
Lower == <<"a","b","c","d","e","f","g","h","i","j","k","l","m",
           "n","o","p","q","r","s","t","u","v","w","x","y","z">>
Digits == <<"0","1","2","3","4","5","6","7","8","9">>

InSeq(c, s) == \E i \in 1..Len(s) : s[i] = c

\* Position of the first c in s, 0 when there is none.
IndexOf(s, c) ==
  IF InSeq(c, s)
    THEN CHOOSE i \in 1..Len(s) : s[i] = c /\ \A j \in 1..(i-1) : s[j] # c
    ELSE 0

\* str.lower() on one character (ASCII letters).
LowerChar(c) == IF InSeq(c, Upper) THEN Lower[IndexOf(Upper, c)] ELSE c

\* str.lower()
LowerStr(s) == [i \in 1..Len(s) |-> LowerChar(s[i])]

IsSpace(c) == c \in {" ", "\t", "\n", "\r"}

RECURSIVE LStrip(_)
LStrip(s) == IF s # <<>> /\ IsSpace(Head(s)) THEN LStrip(Tail(s)) ELSE s

RECURSIVE RStrip(_)
RStrip(s) ==
  IF s # <<>> /\ IsSpace(s[Len(s)]) THEN RStrip(SubSeq(s, 1, Len(s) - 1)) ELSE s

\* str.strip()
Strip(s) == RStrip(LStrip(s))

\* needle in hay
Contains(hay, needle) ==
  \E i \in 1..(Len(hay) - Len(needle) + 1) :
    SubSeq(hay, i, i + Len(needle) - 1) = needle

\* s.split(sep) for a one-character sep: "" gives [""].
RECURSIVE Split(_, _)
Split(s, sep) ==
  IF ~InSeq(sep, s) THEN <<s>>
  ELSE LET i == IndexOf(s, sep)
       IN  <<SubSeq(s, 1, i - 1)>> \o Split(SubSeq(s, i + 1, Len(s)), sep)

(***************************************************************************)
(* Python values                                                           *)
(***************************************************************************)
PyStr(s) == [t |-> "str", neg |-> FALSE, s |-> s]
PyInt(neg, digits) == [t |-> "int", neg |-> neg, s |-> digits]

RECURSIVE DropZeros(_)
DropZeros(d) == IF Len(d) > 1 /\ Head(d) = "0" THEN DropZeros(Tail(d)) ELSE d

\* The digits of s, in order (the underscores of a literal dropped).
RECURSIVE OnlyDigits(_)
OnlyDigits(s) ==
  IF s = <<>> THEN <<>>
  ELSE IF InSeq(Head(s), Digits) THEN <<Head(s)>> \o OnlyDigits(Tail(s))
  ELSE OnlyDigits(Tail(s))

\* Whether body is digits with single underscores between them.
IsIntBody(body) ==
  /\ body # <<>>
  /\ InSeq(body[1], Digits)
  /\ InSeq(body[Len(body)], Digits)
  /\ \A i \in 1..Len(body) : InSeq(body[i], Digits) \/ body[i] = "_"
  /\ \A i \in 1..(Len(body) - 1) : ~(body[i] = "_" /\ body[i+1] = "_")

\* int(s) for a str s: surrounding whitespace, an optional sign, decimal
\* digits.  raised = TRUE stands for the ValueError.
int_(s) ==
  LET u      == Strip(s)
      signed == u # <<>> /\ u[1] \in {"+", "-"}
      body   == IF signed THEN Tail(u) ELSE u
      mag    == DropZeros(OnlyDigits(body))
  IN  IF IsIntBody(body)
        THEN [raised |-> FALSE,
              val |-> PyInt(signed /\ u[1] = "-" /\ mag # <<"0">>, mag)]
        ELSE [raised |-> TRUE, val |-> PyStr(s)]

(***************************************************************************)
(* parse_prescription                                                      *)
(***************************************************************************)
tok_patient == <<"p","a","t","i","e","n","t">>
tok_doctor == <<"d","o","c","t","o","r">>
tok_medicine == <<"m","e","d","i","c","i","n","e">>
tok_dosage == <<"d","o","s","a","g","e">>
tok_quantity == <<"q","u","a","n","t","i","t","y">>
tok_instructions == <<"i","n","s","t","r","u","c","t","i","o","n","s">>

ph_patient == <<"[","P","a","t","i","e","n","t"," ","N","a","m","e","]">>
ph_doctor == <<"[","D","o","c","t","o","r"," ","N","a","m","e","]">>
ph_medicine == <<"[","M","e","d","i","c","i","n","e"," ","N","a","m","e","]">>
ph_dosage == <<"[","D","o","s","a","g","e","]">>
ph_quantity == <<"[","Q","u","a","n","t","i","t","y","]">>
ph_instructions ==
  <<"[","I","n","s","t","r","u","c","t","i","o","n","s"," ","i","f"," ","a","n","y","]">>

NotFound == <<"N","o","t"," ","f","o","u","n","d">>

\* The dict parse_prescription starts from.
DefaultResult ==
  [patient_name  |-> PyStr(NotFound),
   doctor_name   |-> PyStr(NotFound),
   medicine_name |-> PyStr(NotFound),
   dosage        |-> PyStr(NotFound),
   quantity      |-> PyInt(FALSE, <<"0">>),
   instructions  |-> PyStr(NotFound)]

\* SetQuantity without the try: the ValueError of int() leaves the function.
SetQuantity_no_except(result, value) ==
  LET c == int_(value)
  IN  IF c.raised
        THEN [exc |-> "ValueError", result |-> result]
        ELSE [exc |-> "none", result |-> [result EXCEPT !.quantity = c.val]]

\* SetQuantity whose except clause keeps the default instead of the raw value.
SetQuantity_keep_default(result, value) ==
  LET c == int_(value)
  IN  IF c.raised
        THEN [exc |-> "none", result |-> result]
        ELSE [exc |-> "none", result |-> [result EXCEPT !.quantity = c.val]]

\* try: result["quantity"] = int(value) / except: result["quantity"] = value
SetQuantity(result, value) ==
  LET c == int_(value)
  IN  IF c.raised
        THEN [exc |-> "none", result |-> [result EXCEPT !.quantity = PyStr(value)]]
        ELSE [exc |-> "none", result |-> [result EXCEPT !.quantity = c.val]]

\* Assign without the comparisons with the placeholders.
Assign_no_placeholder_test(result, key, value) ==
  IF Contains(key, tok_patient)
    THEN [exc |-> "none", result |-> [result EXCEPT !.patient_name = PyStr(value)]]
  ELSE IF Contains(key, tok_doctor)
    THEN [exc |-> "none", result |-> [result EXCEPT !.doctor_name = PyStr(value)]]
  ELSE IF Contains(key, tok_medicine)
    THEN [exc |-> "none", result |-> [result EXCEPT !.medicine_name = PyStr(value)]]
  ELSE IF Contains(key, tok_dosage)
    THEN [exc |-> "none", result |-> [result EXCEPT !.dosage = PyStr(value)]]
  ELSE IF Contains(key, tok_quantity)
    THEN [exc |-> "none",
          result |-> [result EXCEPT !.quantity =
                        IF int_(value).raised THEN PyStr(value) ELSE int_(value).val]]
  ELSE IF Contains(key, tok_instructions)
    THEN [exc |-> "none", result |-> [result EXCEPT !.instructions = PyStr(value)]]
  ELSE [exc |-> "none", result |-> result]

\* The if/elif chain on one key and value.
Assign(result, key, value) ==
  IF Contains(key, tok_patient) /\ value # ph_patient
    THEN [exc |-> "none", result |-> [result EXCEPT !.patient_name = PyStr(value)]]
  ELSE IF Contains(key, tok_doctor) /\ value # ph_doctor
    THEN [exc |-> "none", result |-> [result EXCEPT !.doctor_name = PyStr(value)]]
  ELSE IF Contains(key, tok_medicine) /\ value # ph_medicine
    THEN [exc |-> "none", result |-> [result EXCEPT !.medicine_name = PyStr(value)]]
  ELSE IF Contains(key, tok_dosage) /\ value # ph_dosage
    THEN [exc |-> "none", result |-> [result EXCEPT !.dosage = PyStr(value)]]
  ELSE IF Contains(key, tok_quantity) /\ value # ph_quantity
    THEN SetQuantity(result, value)
  ELSE IF Contains(key, tok_instructions) /\ value # ph_instructions
    THEN [exc |-> "none", result |-> [result EXCEPT !.instructions = PyStr(value)]]
  ELSE [exc |-> "none", result |-> result]

\* The body of the for loop on one line.
ApplyLine(result, line) ==
  IF InSeq(":", line)
    THEN LET i == IndexOf(line, ":")
         IN  Assign(result,
                    LowerStr(Strip(SubSeq(line, 1, i - 1))),
                    Strip(SubSeq(line, i + 1, Len(line))))
    ELSE [exc |-> "none", result |-> result]

\* The for loop from line i on: trace holds the dict after each line so far;
\* an exception leaves the loop.
RECURSIVE ParseLoop(_, _, _)
ParseLoop(st, lines, i) ==
  IF i > Len(lines) \/ st.exc # "none" THEN st
  ELSE LET r == ApplyLine(st.result, lines[i])
       IN  ParseLoop([exc |-> r.exc, result |-> r.result,
                      trace |-> Append(st.trace, r.result)], lines, i + 1)

\* parse_prescription(text): what it raised (exc), the dict it returned
\* (result), the lines it read and the dict after each of them (trace).
parse_prescription(t) ==
  LET lines == Split(Strip(t), "\n")
      st    == ParseLoop([exc |-> "none", result |-> DefaultResult,
                          trace |-> <<>>], lines, 1)
  IN  [exc |-> st.exc, result |-> st.result, lines |-> lines, trace |-> st.trace]

(***************************************************************************)
(* Prescription texts                                                      *)
(***************************************************************************)
MaxLines == 2

k_Patient == <<"P","a","t","i","e","n","t">>
k_Doctor == <<"D","o","c","t","o","r">>
k_Medicine == <<"M","e","d","i","c","i","n","e">>
k_Dosage == <<"D","o","s","a","g","e">>
k_Quantity == <<"Q","u","a","n","t","i","t","y">>
k_Instructions == <<"I","n","s","t","r","u","c","t","i","o","n","s">>
k_PatientDoctor == <<"P","a","t","i","e","n","t","'","s"," ","D","o","c","t","o","r">>
k_DOCTORDOSAGE == <<"D","O","C","T","O","R"," ","D","O","S","A","G","E">>
k_Refill == <<"R","e","f","i","l","l">>
v_Al == <<"A","l">>
v_Bo == <<"D","r","."," ","B","o">>
v_amox == <<"a","m","o","x">>
v_Zz == <<"Z","z">>
v_5mg == <<"5","m","g">>
v_12 == <<"1","2">>
v_seven == <<"s","e","v","e","n">>
v_m3 == <<"-","3">>
v_1_0 == <<"1","_","0">>
v_big == <<"9","2","2","3","3","7","2","0","3","6","8","5","4","7","7","5","8","0","8">>
v_ab == <<"a",":","b">>
l_Note == <<"T","a","k","e"," ","w","i","t","h"," ","f","o","o","d">>

\* The line "key: value".
Line(key, value) == key \o <<":", " ">> \o value

\* The six lines of the prompt's template, echoed back unfilled.
TemplateLines ==
  { Line(k_Patient, ph_patient), Line(k_Doctor, ph_doctor),
    Line(k_Medicine, ph_medicine), Line(k_Dosage, ph_dosage),
    Line(k_Quantity, ph_quantity), Line(k_Instructions, ph_instructions) }

FilledLines ==
  { Line(k_Patient, v_Al), Line(k_Doctor, v_Bo),
    Line(k_Medicine, v_amox), Line(k_Medicine, v_Zz),
    Line(k_Dosage, v_5mg), Line(k_Instructions, v_ab),
    Line(k_Quantity, v_12), Line(k_Quantity, v_seven), Line(k_Quantity, v_m3),
    Line(k_Quantity, v_1_0), Line(k_Quantity, v_big), Line(k_Quantity, <<>>) }

\* Keys holding two tokens, a placeholder under another field's key, a key
\* holding no token, a line without a colon, an empty line.
OddLines ==
  { Line(k_PatientDoctor, v_Bo), Line(k_PatientDoctor, ph_patient),
    Line(k_Patient, ph_doctor), Line(k_DOCTORDOSAGE, v_5mg),
    Line(k_Refill, v_12), l_Note, <<>> }

Lines == TemplateLines \cup FilledLines \cup OddLines

\* "\n".join(ls)
RECURSIVE Join(_)
Join(ls) ==
  IF ls = <<>> THEN <<>>
  ELSE IF Len(ls) = 1 THEN ls[1]
  ELSE ls[1] \o <<"\n">> \o Join(Tail(ls))

Texts == { Join(ls) : ls \in UNION { [1..n -> Lines] : n \in 0..MaxLines } }

(***************************************************************************)
(* The store: tables are sequences of rows in rowid order                  *)
(***************************************************************************)
n_Amoxicillin == <<"A","m","o","x","i","c","i","l","l","i","n">>
n_Lisinopril == <<"L","i","s","i","n","o","p","r","i","l">>
n_Metformin == <<"M","e","t","f","o","r","m","i","n">>
n_Atorvastatin == <<"A","t","o","r","v","a","s","t","a","t","i","n">>
n_Sertraline == <<"S","e","r","t","r","a","l","i","n","e">>

\* sample_medicines: (name, dosage, quantity, price)
sample_medicines ==
  << <<n_Amoxicillin, "500mg", 100, "12.99">>,
     <<n_Lisinopril, "10mg", 50, "15.50">>,
     <<n_Metformin, "850mg", 60, "8.75">>,
     <<n_Atorvastatin, "20mg", 30, "22.00">>,
     <<n_Sertraline, "50mg", 45, "18.25">> >>

\* The rowid SQLite gives a row inserted into an INTEGER PRIMARY KEY table:
\* one more than the largest rowid in the table, 1 for an empty table.
NextRowId(rows) ==
  IF rows = <<>> THEN 1
  ELSE 1 + CHOOSE m \in { rows[i].id : i \in 1..Len(rows) } :
             \A i \in 1..Len(rows) : rows[i].id <= m

\* INSERT INTO medicines (name, dosage, quantity, price) VALUES (?, ?, ?, ?)
InsertMedicine(meds, name, dosage, quantity, price) ==
  Append(meds, [id |-> NextRowId(meds), name |-> name, dosage |-> dosage,
                quantity |-> quantity, price |-> price])

RECURSIVE InsertMany(_, _)
InsertMany(meds, tuples) ==
  IF tuples = <<>> THEN meds
  ELSE InsertMany(InsertMedicine(meds, tuples[1][1], tuples[1][2],
                                 tuples[1][3], tuples[1][4]), Tail(tuples))

\* init_db on the medicines table: the samples go in when it is empty.
\* (Both tables are created IF NOT EXISTS: an existing orders table is kept.)
init_db(meds) == IF Len(meds) = 0 THEN InsertMany(meds, sample_medicines) ELSE meds

\* SQLite's LIKE: % is any run of characters, _ any one character, and ASCII
\* letters compare without regard to case.
RECURSIVE Like(_, _)
Like(pat, s) ==
  IF pat = <<>> THEN s = <<>>
  ELSE IF Head(pat) = "%"
    THEN Like(Tail(pat), s) \/ (s # <<>> /\ Like(pat, Tail(s)))
  ELSE IF Head(pat) = "_"
    THEN s # <<>> /\ Like(Tail(pat), Tail(s))
  ELSE s # <<>> /\ LowerChar(Head(pat)) = LowerChar(Head(s))
         /\ Like(Tail(pat), Tail(s))

\* The match as a plain substring test (name.find(medicine_name) >= 0).
NameMatches_plain_substring(name, medicine_name) == Contains(name, medicine_name)

\* WHERE name LIKE ? with f"%{medicine_name}%"
NameMatches(name, medicine_name) == Like(<<"%">> \o medicine_name \o <<"%">>, name)

\* check_medicine_in_db: fetchone() of the SELECT, (found, row); row is <<>>
\* for None and <<r>> for the row r.
check_medicine_in_db(medicine_name, meds) ==
  LET hits == { i \in 1..Len(meds) : NameMatches(meds[i].name, medicine_name) }
  IN  IF hits = {} THEN [found |-> FALSE, row |-> <<>>]
      ELSE [found |-> TRUE,
            row |-> << meds[CHOOSE i \in hits : \A j \in hits : i <= j] >>]

Int64Max ==
  <<"9","2","2","3","3","7","2","0","3","6","8","5","4","7","7","5","8","0","7">>
Int64MinMag ==
  <<"9","2","2","3","3","7","2","0","3","6","8","5","4","7","7","5","8","0","8">>

\* a <= b for digit strings of one length
RECURSIVE LexLeq(_, _)
LexLeq(a, b) ==
  IF a = <<>> THEN TRUE
  ELSE IF Head(a) # Head(b) THEN IndexOf(Digits, Head(a)) < IndexOf(Digits, Head(b))
  ELSE LexLeq(Tail(a), Tail(b))

\* a <= b for magnitudes without leading zeros
MagLeq(a, b) == Len(a) < Len(b) \/ (Len(a) = Len(b) /\ LexLeq(a, b))

\* Whether the sqlite3 module can bind the int v: it takes what fits a signed
\* 64-bit integer and raises OverflowError on the rest.
FitsInt64(v) == IF v.neg THEN MagLeq(v.s, Int64MinMag) ELSE MagLeq(v.s, Int64Max)

\* if isinstance(quantity, str): try int(quantity) except: 1
CoerceQuantity(quantity) ==
  IF quantity.t = "str"
    THEN LET c == int_(quantity.s)
         IN  IF c.raised THEN PyInt(FALSE, <<"1">>) ELSE c.val
    ELSE quantity

\* create_medicine_order: the exception, the returned lastrowid and the orders
\* table after the call.  status is the column's DEFAULT.
create_medicine_order(medicine_name, quantity, patient_name, doctor_name, date, ords) ==
  LET q == CoerceQuantity(quantity)
  IN  IF q.t = "int" /\ ~FitsInt64(q)
        THEN [exc |-> "OverflowError", ret |-> 0, orders |-> ords]
        ELSE [exc |-> "none", ret |-> NextRowId(ords),
              orders |-> Append(ords,
                 [id |-> NextRowId(ords), medicine_name |-> medicine_name,
                  quantity |-> q, patient_name |-> patient_name,
                  doctor_name |-> doctor_name, date |-> date,
                  status |-> "Pending"])]

\* The UPDATE without its WHERE clause.
update_status_no_where(ords, selected_order, new_status) ==
  [i \in 1..Len(ords) |-> [ords[i] EXCEPT !.status = new_status]]

\* UPDATE orders SET status = ? WHERE id = ?
update_status(ords, selected_order, new_status) ==
  [i \in 1..Len(ords) |->
     IF ords[i].id = selected_order
       THEN [ords[i] EXCEPT !.status = new_status]
       ELSE ords[i]]

(***************************************************************************)
(* extract_prescription_text                                               *)
(***************************************************************************)
\* The modes Pillow writes as JPEG; save() raises OSError on any other.
JpegModes == {"1", "L", "RGB", "RGBX", "CMYK", "YCbCr"}

\* An uploaded image: its mode, and what the two text producers answer when
\* they are asked about it (ok = FALSE: the producer raises).
Img(mode, primary, secondary) ==
  [mode |-> mode, primary |-> primary, secondary |-> secondary]
Answers(t) == [ok |-> TRUE, text |-> t]
Raises == [ok |-> FALSE, text |-> <<>>]
NoImage == Img("none", Raises, Raises)

\* extract_prescription_text(image): the exception that left it, the text it
\* returned, and which producers it called.
extract_prescription_text(image) ==
  LET mode == IF image.mode = "RGBA" THEN "RGB" ELSE image.mode
  IN  IF mode \notin JpegModes
        THEN [exc |-> "OSError", text |-> <<>>,
              primary_called |-> FALSE, secondary_called |-> FALSE]
      ELSE IF image.primary.ok
        THEN [exc |-> "none", text |-> image.primary.text,
              primary_called |-> TRUE, secondary_called |-> FALSE]
      ELSE IF image.secondary.ok
        THEN [exc |-> "none", text |-> image.secondary.text,
              primary_called |-> TRUE, secondary_called |-> TRUE]
      ELSE [exc |-> "TesseractError", text |-> <<>>,
            primary_called |-> TRUE, secondary_called |-> TRUE]

(***************************************************************************)
(* Inputs of the pages and of the calls                                    *)
(***************************************************************************)
MaxOrders == 2
MaxAdded == 2

Pages == {"Prescription Scanning", "Medicine Database", "Order Management",
          "PDF Report Search", "Generate Order PDF"}
Statuses == {"Pending", "Processing", "Completed", "Cancelled"}
Dates == <<"2026-11-03", "2026-11-04">>

t_Zz == Join(<<Line(k_Patient, v_Al), Line(k_Medicine, v_Zz), Line(k_Quantity, v_12)>>)
t_amox == Join(<<Line(k_Doctor, v_Bo), Line(k_Medicine, v_amox)>>)

Images ==
  { Img("RGB", Answers(t_Zz), Raises),
    Img("RGB", Answers(t_amox), Answers(l_Note)),
    Img("RGBA", Raises, Answers(t_Zz)),
    Img("RGBA", Answers(l_Note), Raises),
    Img("P", Answers(t_Zz), Answers(l_Note)),
    Img("L", Raises, Raises) }

One == PyInt(FALSE, <<"1">>)
Two == PyInt(FALSE, <<"2">>)

(***************************************************************************)
(* State                                                                   *)
(***************************************************************************)
NoParse == [exc |-> "none", result |-> DefaultResult, lines |-> <<>>, trace |-> <<>>]

\* What the last run of the Prescription Scanning page showed.
ScanIdle ==
  [status |-> "idle", exc |-> "none", primary_called |-> FALSE,
   secondary_called |-> FALSE, parsed |-> DefaultResult]

\* The last direct call of a function of prescription_utils and its outcome.
Idle ==
  [op |-> "none", exc |-> "none", ret |-> 0, found |-> FALSE, row |-> <<>>,
   name |-> <<>>, quantity |-> One]

\* After the first run of main(): the store initialised, the first page shown.
Init ==
  /\ text = <<>>
  /\ parsed = NoParse
  /\ pc = "idle"
  /\ page = "Prescription Scanning"
  /\ uploaded = NoImage
  /\ scan = ScanIdle
  /\ medicines = init_db(<<>>)
  /\ orders = <<>>
  /\ today = 1
  /\ last = Idle

(***************************************************************************)
(* The pages of main(): one action is one run of the script, caused by one *)
(* interaction.  A button reads True only in the run its own click causes. *)
(***************************************************************************)
\* The sidebar selectbox: another page is chosen.  The widgets of the page
\* left are not drawn in the new run and lose their state.
SelectPage ==
  \E p \in Pages \ {page} :
    /\ page' = p
    /\ uploaded' = NoImage
    /\ scan' = ScanIdle
    /\ medicines' = init_db(medicines)
    /\ UNCHANGED <<text, parsed, pc, orders, today, last>>

\* Prescription Scanning: a file is put into (or taken out of) the uploader.
\* No button was clicked in this run: the image alone is shown.
Upload ==
  /\ page = "Prescription Scanning"
  /\ \E img \in (Images \cup {NoImage}) \ {uploaded} : uploaded' = img
  /\ scan' = ScanIdle
  /\ medicines' = init_db(medicines)
  /\ UNCHANGED <<text, parsed, pc, page, orders, today, last>>

\* What the run shows when "Process Prescription" reads True.  The "Create
\* Order" button drawn in the not_found branch was not clicked in this run.
ProcessRun(image, meds) ==
  LET e == extract_prescription_text(image)
      p == parse_prescription(e.text)
      l == check_medicine_in_db(p.result.medicine_name.s, meds)
  IN  IF e.exc # "none"
        THEN [ScanIdle EXCEPT !.status = "error", !.exc = e.exc,
                !.primary_called = e.primary_called,
                !.secondary_called = e.secondary_called]
      ELSE IF p.exc # "none"
        THEN [ScanIdle EXCEPT !.status = "error", !.exc = p.exc,
                !.primary_called = e.primary_called,
                !.secondary_called = e.secondary_called]
      ELSE [status |-> IF l.found THEN "found" ELSE "not_found",
            exc |-> "none",
            primary_called |-> e.primary_called,
            secondary_called |-> e.secondary_called,
            parsed |-> p.result]

\* Prescription Scanning: the click on "Process Prescription".
ClickProcess ==
  /\ page = "Prescription Scanning"
  /\ uploaded # NoImage
  /\ scan' = ProcessRun(uploaded, init_db(medicines))
  /\ medicines' = init_db(medicines)
  /\ UNCHANGED <<text, parsed, pc, page, uploaded, orders, today, last>>

\* The orders table after the run a click on the scanning page's "Create
\* Order" causes: "Process Prescription" reads False in that run, so the
\* block that holds the "Create Order" button and the call is not executed.
CreateOrderRun(process_clicked, p, date, ords) ==
  IF process_clicked
    THEN create_medicine_order(p.medicine_name.s, p.quantity, p.patient_name.s,
                               p.doctor_name.s, date, ords).orders
    ELSE ords

\* Prescription Scanning: the click on the "Create Order" button that the
\* last run drew.
ClickCreateOrder ==
  /\ page = "Prescription Scanning"
  /\ scan.status = "not_found"
  /\ orders' = CreateOrderRun(FALSE, scan.parsed, Dates[today], orders)
  /\ scan' = ScanIdle
  /\ medicines' = init_db(medicines)
  /\ UNCHANGED <<text, parsed, pc, page, uploaded, today, last>>

\* Medicine Database: the add_medicine_form is submitted.
AddMedicine(names) ==
  /\ page = "Medicine Database"
  /\ Len(medicines) < Len(sample_medicines) + MaxAdded
  /\ \E name \in names :
       medicines' = IF name # <<>>
                      THEN InsertMedicine(init_db(medicines), name, "5mg", 50, "10.00")
                      ELSE init_db(medicines)
  /\ UNCHANGED <<text, parsed, pc, page, uploaded, scan, orders, today, last>>

\* Order Management: "Update Order Status" with an order and a status chosen
\* in the two selectboxes, which are drawn only when there are orders.
UpdateStatus ==
  /\ page = "Order Management"
  /\ orders # <<>>
  /\ \E i \in 1..Len(orders), new_status \in Statuses :
       orders' = update_status(orders, orders[i].id, new_status)
  /\ medicines' = init_db(medicines)
  /\ UNCHANGED <<text, parsed, pc, page, uploaded, scan, today, last>>

\* Order Management: the create_order_form is submitted; qty is the int of a
\* number_input with min_value=1.
SubmitOrder ==
  /\ page = "Order Management"
  /\ Len(orders) < MaxOrders
  /\ \E med_name \in {<<>>, v_Zz}, qty \in {One, Two},
        patient_nm \in {<<>>, v_Al}, doc_nm \in {v_Bo} :
       orders' = IF med_name # <<>> /\ patient_nm # <<>>
                   THEN create_medicine_order(med_name, qty, patient_nm, doc_nm,
                                              Dates[today], orders).orders
                   ELSE orders
  /\ medicines' = init_db(medicines)
  /\ UNCHANGED <<text, parsed, pc, page, uploaded, scan, today, last>>

\* The server's date moves on.
Tick ==
  /\ today < Len(Dates)
  /\ today' = today + 1
  /\ UNCHANGED <<text, parsed, pc, page, uploaded, scan, medicines, orders, last>>

n_Zz == v_Zz

Next ==
  \/ SelectPage
  \/ Upload
  \/ ClickProcess
  \/ ClickCreateOrder
  \/ AddMedicine({<<>>, n_Zz})
  \/ UpdateStatus
  \/ SubmitOrder
  \/ Tick

Spec == Init /\ [][Next]_vars

(***************************************************************************)
(* parse_prescription on its own: every text of Texts is parsed            *)
(***************************************************************************)
InitParse ==
  /\ text \in Texts
  /\ parsed = NoParse
  /\ pc = "call"
  /\ page = "Prescription Scanning"
  /\ uploaded = NoImage
  /\ scan = ScanIdle
  /\ medicines = init_db(<<>>)
  /\ orders = <<>>
  /\ today = 1
  /\ last = Idle

ParseCall ==
  /\ pc = "call"
  /\ parsed' = parse_prescription(text)
  /\ pc' = "returned"
  /\ UNCHANGED <<text, page, uploaded, scan, medicines, orders, today, last>>

NextParse == ParseCall

SpecParse == InitParse /\ [][NextParse]_vars

(***************************************************************************)
(* Direct calls of check_medicine_in_db and create_medicine_order          *)
(***************************************************************************)
v_abc == <<"a","b","c">>
v_OR == <<"O","R">>
v_Apn == <<"A","%","n">>
v_L_s == <<"L","_","s">>
v_t_c == <<"t","_","c">>
n_Vit_C == <<"V","i","t","_","C">>
n_Amoxil == <<"a","m","o","x","i","l">>

LookupNames == {v_amox, v_OR, v_Apn, v_L_s, v_t_c, v_Zz, NotFound, <<>>,
                n_Amoxicillin}

\* Quantities as parse_prescription hands them on (an int or the raw str).
CallQuantities ==
  { PyStr(v_12), PyStr(v_abc), PyStr(v_big), PyInt(FALSE, v_big),
    PyInt(TRUE, <<"3">>), One }

CallCheckMedicine(names) ==
  /\ \E n \in names :
       LET r == check_medicine_in_db(n, medicines)
       IN  last' = [Idle EXCEPT !.op = "check_medicine_in_db", !.name = n,
                                !.found = r.found, !.row = r.row]
  /\ UNCHANGED <<text, parsed, pc, page, uploaded, scan, medicines, orders, today>>

CallCreateOrder ==
  /\ Len(orders) < MaxOrders
  /\ \E q \in CallQuantities, pn \in {v_Al, NotFound} :
       LET r == create_medicine_order(v_Zz, q, pn, v_Bo, Dates[today], orders)
       IN  /\ orders' = r.orders
           /\ last' = [Idle EXCEPT !.op = "create_medicine_order", !.name = v_Zz,
                                   !.quantity = q, !.exc = r.exc, !.ret = r.ret]
  /\ UNCHANGED <<text, parsed, pc, page, uploaded, scan, medicines, today>>

InitLookup ==
  /\ text = <<>>
  /\ parsed = NoParse
  /\ pc = "idle"
  /\ page = "Medicine Database"
  /\ uploaded = NoImage
  /\ scan = ScanIdle
  /\ medicines = init_db(<<>>)
  /\ orders = <<>>
  /\ today = 1
  /\ last = Idle

NextLookup ==
  \/ AddMedicine({<<>>, n_Zz, n_Vit_C, n_Amoxil})
  \/ CallCheckMedicine(LookupNames)

SpecLookup == InitLookup /\ [][NextLookup]_vars

InitOrders ==
  /\ text = <<>>
  /\ parsed = NoParse
  /\ pc = "idle"
  /\ page = "Order Management"
  /\ uploaded = NoImage
  /\ scan = ScanIdle
  /\ medicines = init_db(<<>>)
  /\ orders = <<>>
  /\ today = 1
  /\ last = Idle

NextOrders ==
  \/ CallCreateOrder
  \/ UpdateStatus
  \/ SubmitOrder
  \/ CallCheckMedicine({v_amox, v_Zz})
  \/ Tick

SpecOrders == InitOrders /\ [][NextOrders]_vars

(***************************************************************************)
(* Properties of parse_prescription (checked under SpecParse)              *)
(***************************************************************************)
FieldOrder == <<"patient_name", "doctor_name", "medicine_name", "dosage",
                "quantity", "instructions">>
FieldNames == { FieldOrder[k] : k \in 1..Len(FieldOrder) }
TokenOf == <<tok_patient, tok_doctor, tok_medicine, tok_dosage, tok_quantity,
             tok_instructions>>
PlaceholderOf == <<ph_patient, ph_doctor, ph_medicine, ph_dosage, ph_quantity,
                   ph_instructions>>
Placeholders == { PlaceholderOf[k] : k \in 1..Len(PlaceholderOf) }

\* The lower-cased text before the first colon and the trimmed text after it.
KeyOf(line) == LowerStr(Strip(SubSeq(line, 1, IndexOf(line, ":") - 1)))
ValueOf(line) == Strip(SubSeq(line, IndexOf(line, ":") + 1, Len(line)))

\* The tokens, by their place in the priority order, that the line's key holds.
TokensIn(line) ==
  IF InSeq(":", line)
    THEN { k \in 1..Len(TokenOf) : Contains(KeyOf(line), TokenOf[k]) }
    ELSE {}

\* The place of the field a line is classified to: the first token its key
\* holds; 0 for a line without a colon or without a token.
Classify(line) ==
  IF TokensIn(line) = {} THEN 0
  ELSE CHOOSE k \in TokensIn(line) : \A j \in TokensIn(line) : k <= j

\* The lines parse_prescription reads and the dict before and after line i.
LinesOf(t) == Split(Strip(t), "\n")
Before(i) == IF i = 1 THEN DefaultResult ELSE parsed.trace[i - 1]
After(i) == parsed.trace[i]

Returned == pc = "returned"

\* C1: for every text parse_prescription returns, without raising, a record
\* with exactly the six fields, and a field that no line's key names holds its
\* default ("Not found", 0 for quantity); the empty text gives the all-defaults
\* record.
C1_AlwaysSixFields ==
  Returned =>
    /\ parsed.exc = "none"
    /\ DOMAIN parsed.result = FieldNames
    /\ \A k \in 1..Len(FieldOrder) :
         (\A i \in 1..Len(LinesOf(text)) : k \notin TokensIn(LinesOf(text)[i]))
           => parsed.result[FieldOrder[k]]
                = IF FieldOrder[k] = "quantity" THEN PyInt(FALSE, <<"0">>)
                  ELSE PyStr(NotFound)
    /\ text = <<>> =>
         parsed.result =
           [patient_name |-> PyStr(NotFound), doctor_name |-> PyStr(NotFound),
            medicine_name |-> PyStr(NotFound), dosage |-> PyStr(NotFound),
            quantity |-> PyInt(FALSE, <<"0">>), instructions |-> PyStr(NotFound)]

\* A text with a colon line that names one field only and a quantity that is
\* no integer has been parsed: the other fields hold their defaults.
C1_Witness ==
  /\ Returned
  /\ text = Join(<<l_Note, Line(k_Quantity, v_seven)>>)
  /\ parsed.result.patient_name = PyStr(NotFound)
  /\ parsed.result.quantity = PyStr(v_seven)

\* C2 as stated: a classified line whose value is any of the six placeholders
\* leaves its field as it was, and no field of the returned record holds a
\* placeholder.
C2_NoPlaceholderStored ==
  Returned =>
    /\ \A i \in 1..Len(LinesOf(text)) :
         LET k == Classify(LinesOf(text)[i])
         IN  (k # 0 /\ ValueOf(LinesOf(text)[i]) \in Placeholders)
               => After(i)[FieldOrder[k]] = Before(i)[FieldOrder[k]]
    /\ \A f \in FieldNames : ~(parsed.result[f].t = "str"
                               /\ parsed.result[f].s \in Placeholders)

\* C2 amended: a classified line whose value is the placeholder of the field
\* it is classified to leaves that field as it was, and no field of the
\* returned record holds its own placeholder.
C2_OwnPlaceholderNotStored ==
  Returned =>
    /\ \A i \in 1..Len(LinesOf(text)) :
         LET k == Classify(LinesOf(text)[i])
         IN  (k # 0 /\ ValueOf(LinesOf(text)[i]) = PlaceholderOf[k])
               => After(i)[FieldOrder[k]] = Before(i)[FieldOrder[k]]
    /\ \A k \in 1..Len(FieldOrder) :
         parsed.result[FieldOrder[k]] # PyStr(PlaceholderOf[k])

\* The template's patient line came after a filled patient line: the field
\* keeps the earlier value.
C2_Witness ==
  /\ Returned
  /\ text = Join(<<Line(k_Patient, v_Al), Line(k_Patient, ph_patient)>>)
  /\ parsed.result.patient_name = PyStr(v_Al)

\* C3: a line changes no field but the one it is classified to (the first
\* token, in the priority order, that its key holds), whatever its value; a
\* line without a colon or without a token changes no field.
C3_OnlyClassifiedFieldChanges ==
  Returned =>
    \A i \in 1..Len(LinesOf(text)) :
      \A k \in 1..Len(FieldOrder) :
        k # Classify(LinesOf(text)[i])
          => After(i)[FieldOrder[k]] = Before(i)[FieldOrder[k]]

\* C4: a line classified as quantity whose value is not [Quantity] sets the
\* quantity to the integer its value converts to, and to the raw trimmed value
\* when it does not convert; "12" gives 12 and "seven" gives "seven"; nothing
\* is raised.
C4_QuantityIntOrRaw ==
  Returned =>
    /\ parsed.exc = "none"
    /\ \A i \in 1..Len(LinesOf(text)) :
         LET line == LinesOf(text)[i]
         IN  (Classify(line) = 5 /\ ValueOf(line) # ph_quantity)
               => /\ After(i).quantity =
                       IF int_(ValueOf(line)).raised THEN PyStr(ValueOf(line))
                       ELSE int_(ValueOf(line)).val
                  /\ ValueOf(line) = v_12 => After(i).quantity = PyInt(FALSE, <<"1","2">>)
                  /\ ValueOf(line) = v_seven
                       => After(i).quantity = PyStr(<<"s","e","v","e","n">>)

\* An integer quantity was overwritten by a later line whose value is no
\* integer.
C4_Witness ==
  /\ Returned
  /\ text = Join(<<Line(k_Quantity, v_12), Line(k_Quantity, v_seven)>>)
  /\ parsed.trace[1].quantity = PyInt(FALSE, v_12)
  /\ parsed.result.quantity = PyStr(v_seven)

(***************************************************************************)
(* Properties of check_medicine_in_db (checked under SpecLookup)           *)
(***************************************************************************)
CheckStep == last' # last /\ last'.op = "check_medicine_in_db"

\* The least element of a nonempty set of row positions.
First(hits) == CHOOSE i \in hits : \A j \in hits : i <= j

\* What a lookup returned, given the rows that count as matching.
Returned_(l, hits, meds) ==
  /\ l.found <=> hits # {}
  /\ l.found => l.row = << meds[First(hits)] >>
  /\ ~l.found => l.row = <<>>

\* C5 as stated: found exactly when a stored name contains medicine_name as a
\* substring, the record being the first such row in id order; no record
\* otherwise; the tables are left as they were.
C5_SubstringLookup ==
  [][CheckStep =>
       /\ Returned_(last',
                    { i \in 1..Len(medicines) :
                        Contains(medicines[i].name, last'.name) },
                    medicines)
       /\ medicines' = medicines /\ orders' = orders]_vars

\* name holds the characters of n in order from some place on, letters
\* compared without case, a _ of n standing for any one character and a % for
\* any run of characters: g[j] is the place in name reached after n[j].
HoldsPattern(name, n) ==
  \E start \in 0..Len(name) :
    \E g \in [1..Len(n) -> 0..Len(name)] :
      \A j \in 1..Len(n) :
        LET prev == IF j = 1 THEN start ELSE g[j - 1]
        IN  IF n[j] = "%" THEN g[j] >= prev
            ELSE /\ g[j] = prev + 1
                 /\ n[j] = "_" \/ LowerChar(name[g[j]]) = LowerChar(n[j])

\* Whether a stored name matches the LIKE pattern %n%.
LikeHolds(name, n) ==
  IF InSeq("%", n) \/ InSeq("_", n)
    THEN HoldsPattern(name, n)
    ELSE Contains(LowerStr(name), LowerStr(n))

\* C5 amended: found exactly when a stored name matches the LIKE pattern
\* %medicine_name% (a substring compared without regard to ASCII case, with %
\* and _ of medicine_name as wildcards), the record being the first such row
\* in id order; no record otherwise; the tables are left as they were.
C5_LikeLookup ==
  [][CheckStep =>
       /\ Returned_(last',
                    { i \in 1..Len(medicines) :
                        LikeHolds(medicines[i].name, last'.name) },
                    medicines)
       /\ medicines' = medicines /\ orders' = orders]_vars

\* A lookup of "OR" found Metformin, the first of the two rows whose names
\* hold "or", in a table to which a medicine had been added.
C5_Witness ==
  /\ last.op = "check_medicine_in_db"
  /\ last.name = v_OR
  /\ last.found
  /\ last.row = << medicines[3] >>
  /\ medicines[3].name = n_Metformin
  /\ Len(medicines) > Len(sample_medicines)

(***************************************************************************)
(* Properties of create_medicine_order (checked under SpecOrders)          *)
(***************************************************************************)
\* The integer the claim gives a quantity argument.
ClaimedQuantity(q) ==
  IF q.t = "int" THEN q
  ELSE IF int_(q.s).raised THEN PyInt(FALSE, <<"1">>)
  ELSE int_(q.s).val

\* C6: create_medicine_order does not fail because of its quantity: the row
\* it creates holds the integer a convertible string converts to, 1 for any
\* other string, and an integer argument as it is; every order row holds an
\* integer quantity.
C6_QuantityNeverFails ==
  /\ last.op = "create_medicine_order" =>
       /\ last.exc = "none"
       /\ \E i \in 1..Len(orders) :
            /\ orders[i].id = last.ret
            /\ orders[i].quantity = ClaimedQuantity(last.quantity)
  /\ \A i \in 1..Len(orders) : orders[i].quantity.t = "int"

\* C7: each call of create_medicine_order appends exactly one order row and
\* returns its id, which is greater than the id of every row there was.
C7_EachCallInsertsOneRow ==
  [][CallCreateOrder =>
       /\ Len(orders') = Len(orders) + 1
       /\ SubSeq(orders', 1, Len(orders)) = orders
       /\ orders'[Len(orders')].id = last'.ret
       /\ \A i \in 1..Len(orders) : orders[i].id < last'.ret]_vars

(***************************************************************************)
(* Properties of the pages (checked under Spec)                            *)
(***************************************************************************)
\* C8: a step removes no order and adds at most one, which is Pending; every
\* status is one of the four; a step that changes an existing order is a
\* status update on the Order Management page, and it changes the status of
\* one order and nothing else.
C8_OrdersLifecycle ==
  [][/\ Len(orders) <= Len(orders') /\ Len(orders') <= Len(orders) + 1
     /\ \A i \in 1..Len(orders') : orders'[i].status \in Statuses
     /\ Len(orders') > Len(orders) =>
          /\ orders'[Len(orders')].status = "Pending"
          /\ SubSeq(orders', 1, Len(orders)) = orders
     /\ (Len(orders') = Len(orders) /\ orders' # orders) =>
          /\ UpdateStatus
          /\ \E i \in 1..Len(orders) :
               /\ \E st \in Statuses : orders'[i] = [orders[i] EXCEPT !.status = st]
               /\ \A j \in 1..Len(orders) : j # i => orders'[j] = orders[j]]_vars

\* Two orders, the first moved to Completed, the second still Pending.
C8_Witness ==
  /\ Len(orders) = 2
  /\ orders[1].status = "Completed"
  /\ orders[2].status = "Pending"
  /\ orders[1].id # orders[2].id

\* C9: a run that processed an image ends in an exception only when the
\* secondary producer was called (and failed too), and the secondary producer
\* is not called when the primary one answered.
C9_FallbackOnEveryFailure ==
  /\ scan.status = "error" => scan.secondary_called
  /\ (scan.status # "idle" /\ uploaded.primary.ok /\ scan.primary_called)
       => ~scan.secondary_called

\* C10: the run caused by a click on the scanning page's "Create Order"
\* inserts one order row made of the parsed medicine_name, quantity,
\* patient_name and doctor_name; no step on the page inserts an order when
\* the medicine was found.
C10_CreateOrderClickInserts ==
  [][/\ ClickCreateOrder =>
          /\ Len(orders') = Len(orders) + 1
          /\ orders'[Len(orders')].medicine_name = scan.parsed.medicine_name.s
          /\ orders'[Len(orders')].patient_name = scan.parsed.patient_name.s
          /\ orders'[Len(orders')].doctor_name = scan.parsed.doctor_name.s
          /\ orders'[Len(orders')].quantity = ClaimedQuantity(scan.parsed.quantity)
     /\ (page = "Prescription Scanning" /\ scan.status = "found"
           /\ page' = "Prescription Scanning") => orders' = orders]_vars

====
